---------------------------- MODULE Spec2Model ----------------------------
(***************************************************************************)
(* Model of the Gaode weather gateway                                      *)
(* (servers-extra/weather/src/mcp_server_weather/gaode_weather.py).        *)
(*                                                                         *)
(* Python values are modelled as tagged records, one tag per Python type:  *)
(*   [str |-> <<units>>]  a str, as the sequence of its text units         *)
(*   [num |-> n]          an int                                           *)
(*   [null |-> TRUE]      None                                             *)
(*   [list |-> <<...>>]   a list                                           *)
(*   [obj |-> f]          a dict with str keys, f a function on its keys   *)
(* so that "25" and 25, or [] and "", are different values.                *)
(*                                                                         *)
(* The Chinese literals of the source are written in pinyin, one unit per  *)
(* word; the original is given next to each.                               *)
(***************************************************************************)
EXTENDS Integers, Sequences, FiniteSets, Bags, TLC

VARIABLES
    api_key,    \* self.api_key
    base_url,   \* self.base_url
    calls,      \* the bag of the calls suspended in "await client.get"
    returned,   \* the last call that came back to its caller, with what it got
    history,    \* the first call that came back and the number of calls that
                \* came back, where the specification keeps them
    ctor_args,  \* the (api_key, base_url) arguments the gateway was built with
    warnings,   \* number of placeholder warnings the constructor has logged
    tool_returned,  \* server.py: the last tool call that came back
    resource_read,  \* server.py: the last read of city_codes://{province}
    handled,        \* sse_server.py: the last request SessionFormatMiddleware
                    \* was called with, and what it did with it
    disk,           \* sse_server.py: the log file (name 0) and its backups
                    \* (name i for filename.i) in the log directory
    file_size,      \* RotatingFile.file_size
    pc,             \* sse_server.py main: where each thread is
    restoring,      \* where each thread is inside restore_terminal_settings
    running,        \* main: running
    exit_requested, \* main: exit_requested
    terminal_restored,          \* main: terminal_restored
    global_terminal_settings,   \* whether global_terminal_fd and
                                \* global_terminal_settings are set
    terminal,       \* the mode of the terminal
    tcsetattr_calls,    \* how often restore_terminal_settings called tcsetattr
    signals,        \* the signals the process sent to itself, in order
    process,        \* whether the process runs, and how it ended
    seen_running,   \* what force_exit read from running
    quit_keys       \* how many 'q' or Ctrl+C the monitor thread has read

\* what the constructor sets and logs
config == << api_key, base_url, ctor_args, warnings >>

\* the variables of the gateway
gateway == << config, calls, returned, history >>

\* the variables of the tool handlers of server.py
tools == << tool_returned >>

\* the variables of the resource handler of server.py
resources == << resource_read >>

\* the variables of the components other than the gateway and the tools
\* the variables of SessionFormatMiddleware
middleware == << handled >>

\* the variables of RotatingFile
rotating == << disk, file_size >>

\* the variables of the threads of main and of the terminal
shutdown ==
    << pc, restoring, running, exit_requested, terminal_restored,
       global_terminal_settings, terminal, tcsetattr_calls, signals, process,
       seen_running, quit_keys >>

others == << resources, middleware, rotating, shutdown >>

\* what a read of the resource leaves alone
notResources == << gateway, tools, middleware, rotating, shutdown >>

\* what the middleware leaves alone
notMiddleware == << gateway, tools, resources, rotating, shutdown >>

\* what RotatingFile leaves alone
notRotating == << gateway, tools, resources, middleware, shutdown >>

\* what the threads of main leave alone
notShutdown == << gateway, tools, resources, middleware, rotating >>

\* the variables of the components other than the gateway
outside == << tools, others >>

vars == << gateway, outside >>

----------------------------------------------------------------------------
(* Bounds *)

\* number of coroutines that may be inside the gateway at the same time
MaxInFlight == 2
\* number of calls that come back in a run that keeps the history
MaxReturns == 3
\* largest number of elements of an upstream "lives" / "forecasts" array
MaxGroups == 2
\* largest number of day entries ("casts") of one forecast group
MaxCasts == 2

----------------------------------------------------------------------------
(* Python values *)

JStr(s) == [str |-> s]
JNum(n) == [num |-> n]
JNull == [null |-> TRUE]
JList(l) == [list |-> l]
JObj(f) == [obj |-> f]

\* a str whose text is one unit
S(u) == JStr(<< u >>)

IsStr(v) == "str" \in DOMAIN v
IsNum(v) == "num" \in DOMAIN v
IsNull(v) == "null" \in DOMAIN v
IsList(v) == "list" \in DOMAIN v
IsObj(v) == "obj" \in DOMAIN v

\* "k in d" for a dict d
HasKey(d, k) == k \in DOMAIN d.obj

\* d.get(k): the value under k, None when the key is absent
Get(d, k) == IF HasKey(d, k) THEN d.obj[k] ELSE JNull

\* the dict d with d[k] = v
With(d, k, v) == JObj((k :> v) @@ d.obj)

\* bool(v), as used by "and" / "or"
Truthy(v) ==
    IF IsStr(v) THEN Len(v.str) > 0
    ELSE IF IsNum(v) THEN v.num # 0
    ELSE IF IsList(v) THEN Len(v.list) > 0
    ELSE IF IsObj(v) THEN DOMAIN v.obj # {}
    ELSE FALSE

\* "a or b"
PyOr(a, b) == IF Truthy(a) THEN a ELSE b

\* whether len(v) is defined (otherwise TypeError)
HasLen(v) == IsStr(v) \/ IsList(v) \/ IsObj(v)

\* len(v) for a value that has a length
PyLen(v) ==
    IF IsStr(v) THEN Len(v.str)
    ELSE IF IsList(v) THEN Len(v.list)
    ELSE Cardinality(DOMAIN v.obj)

\* all sequences over S of length 0..n
SeqsUpTo(S_, n) == UNION { [1..k -> S_] : k \in 0..n }

----------------------------------------------------------------------------
(* Exceptions and the outcome of a block of code *)

Exc(type, text) == [type |-> type, text |-> text]

Ret(v) == [ret |-> v]
Raise(e) == [exc |-> e]
Raised(r) == "exc" \in DOMAIN r


----------------------------------------------------------------------------
(* gaode_weather.py: module constants and the constructor *)

\* AMAP_KEY, with no AMAP_KEY in the environment
AMAP_KEY == S("your_amap_key_here")
\* AMAP_BASE_URL, with no AMAP_BASE_URL in the environment
AMAP_BASE_URL == S("https://restapi.amap.com/v3/weather")

\* self.api_key = api_key or AMAP_KEY
init_api_key(arg) == PyOr(arg, AMAP_KEY)
\* self.base_url = base_url or AMAP_BASE_URL
init_base_url(arg) == PyOr(arg, AMAP_BASE_URL)

init_warnings_never(key) == 0

\* if self.api_key == "your_amap_key_here": logger.warning(...)
\* the number of warnings logged
init_warnings(key) == IF key = S("your_amap_key_here") THEN 1 ELSE 0

----------------------------------------------------------------------------
(* gaode_weather.py: building the request *)

\* params of get_weather_live
LiveParams(key, city) ==
    JObj([key |-> key, city |-> city, extensions |-> S("base"), output |-> S("JSON")])

ForecastParamsCrossed(key, city) ==
    JObj([key |-> key, city |-> city, extensions |-> S("base"), output |-> S("JSON")])

\* params of get_weather_forecast
ForecastParams(key, city) ==
    JObj([key |-> key, city |-> city, extensions |-> S("all"), output |-> S("JSON")])

\* f"{self.base_url}/weatherInfo"
WeatherInfoUrl(base) == JStr(base.str \o << "/weatherInfo" >>)

\* client.get(url, params=params)
Get_(url, params) == [method |-> "GET", url |-> url, params |-> params]

\* the request get_weather_live awaits
LiveRequest(key, base, city) == Get_(WeatherInfoUrl(base), LiveParams(key, city))
\* the request get_weather_forecast awaits
ForecastRequest(key, base, city) == Get_(WeatherInfoUrl(base), ForecastParams(key, city))

----------------------------------------------------------------------------
(* gaode_weather.py: from the upstream outcome to the decoded body *)

\* what "await client.get(...)" can end in: an exception of the transport,
\* or a response with a status code and a content that is JSON text of some
\* value ([json |-> v]) or is not JSON at all ([junk |-> TRUE])
IsNetworkFailure(outcome) == "exc" \in DOMAIN outcome
IsResponse(outcome) == "status_code" \in DOMAIN outcome

\* Response.is_success
is_success(code) == 200 <= code /\ code <= 299

\* response.raise_for_status()
raise_for_status(response) ==
    IF is_success(response.status_code)
    THEN Ret(response)
    ELSE Raise(Exc("HTTPStatusError", << "status", ToString(response.status_code) >>))

\* response.json()
json(response) ==
    IF "json" \in DOMAIN response.content
    THEN Ret(response.content.json)
    ELSE Raise(Exc("JSONDecodeError", << "Expecting value" >>))

FetchIgnoringStatus(outcome) ==
    IF IsNetworkFailure(outcome) THEN Raise(outcome.exc)
    ELSE json(outcome)

\* the "async with" block: get, raise_for_status, json
Fetch(outcome) ==
    IF IsNetworkFailure(outcome) THEN Raise(outcome.exc)
    ELSE IF Raised(raise_for_status(outcome)) THEN raise_for_status(outcome)
    ELSE json(outcome)

----------------------------------------------------------------------------
(* gaode_weather.py: from the decoded body to the result *)

\* "API返回的数据格式不正确"
ShapeMessage == << "API", "fanhui", "de", "shuju", "geshi", "bu", "zhengque" >>

ShapeErrorWithoutBody(data) == JObj([error |-> JStr(ShapeMessage)])

\* {"error": "API返回的数据格式不正确", "raw_response": data}
ShapeError(data) == JObj([error |-> JStr(ShapeMessage), raw_response |-> data])

IndexLast(v) ==
    IF IsList(v) THEN Ret(v.list[Len(v.list)])
    ELSE IF IsStr(v) THEN Ret(S(v.str[Len(v.str)]))
    ELSE Raise(Exc("KeyError", << "0" >>))

\* v[0] for a value v with len(v) > 0
Index0(v) ==
    IF IsList(v) THEN Ret(v.list[1])
    ELSE IF IsStr(v) THEN Ret(S(v.str[1]))
    ELSE Raise(Exc("KeyError", << "0" >>))

\* if data.get("status") == "1" and data.get(field) and len(data[field]) > 0:
\*     return data[field][0]
\* else:
\*     return {"error": ..., "raw_response": data}
CheckResponse(data, field) ==
    IF ~IsObj(data)
    THEN Raise(Exc("AttributeError", << "object has no attribute 'get'" >>))
    ELSE IF Get(data, "status") # S("1") THEN Ret(ShapeError(data))
    ELSE IF ~Truthy(Get(data, field)) THEN Ret(ShapeError(data))
    ELSE IF ~HasLen(data.obj[field])
    THEN Raise(Exc("TypeError", << "object has no len()" >>))
    ELSE IF ~(PyLen(data.obj[field]) > 0) THEN Ret(ShapeError(data))
    ELSE Index0(data.obj[field])

LiveFailPrefixPasted == << "huoqu", "tianqi", "yubao", "shuju", "shibai", ": " >>

\* "获取天气数据失败: "
LiveFailPrefix == << "huoqu", "tianqi", "shuju", "shibai", ": " >>
ForecastFailPrefixPasted == << "huoqu", "tianqi", "shuju", "shibai", ": " >>

\* "获取天气预报数据失败: "
ForecastFailPrefix == << "huoqu", "tianqi", "yubao", "shuju", "shibai", ": " >>

\* {"error": f"<prefix>{str(e)}"}
FailResult(prefix, e) == JObj([error |-> JStr(prefix \o e.text)])

\* the classes of the exceptions that can be raised inside the try block
ExceptionClasses ==
    { "ConnectError", "HTTPError", "HTTPStatusError", "JSONDecodeError",
      "AttributeError", "TypeError", "KeyError" }

CaughtOnlyHttpx(e) == e.type \in { "ConnectError", "HTTPError", "HTTPStatusError" }

\* "except Exception as e"
Caught(e) == e.type \in ExceptionClasses

\* try: <block> except Exception as e: return {"error": f"<prefix>{str(e)}"}
TryExcept(block, prefix) ==
    IF Raised(block) /\ Caught(block.exc)
    THEN Ret(FailResult(prefix, block.exc))
    ELSE block

\* the try block of an operation after its await, for the array it reads
Body(outcome, field) ==
    IF Raised(Fetch(outcome)) THEN Fetch(outcome)
    ELSE CheckResponse(Fetch(outcome).ret, field)

\* a gateway that keeps the last record it returned and reuses it
LiveResultCached(outcome) ==
    IF /\ returned.pc = "returned"
       /\ returned.op = "live"
       /\ ~Raised(returned.result)
       /\ IsObj(returned.result.ret)
       /\ ~HasKey(returned.result.ret, "error")
    THEN returned.result
    ELSE TryExcept(Body(outcome, "lives"), LiveFailPrefix)

\* get_weather_live from the outcome of its request on
LiveResult(outcome) == TryExcept(Body(outcome, "lives"), LiveFailPrefix)

\* the casts of a forecast group in reverse order
ReverseCasts(v) ==
    IF IsObj(v) /\ HasKey(v, "casts") /\ IsList(v.obj.casts)
    THEN With(v, "casts",
              JList([i \in 1..Len(v.obj.casts.list) |->
                        v.obj.casts.list[Len(v.obj.casts.list) + 1 - i]]))
    ELSE v

ForecastResultReversed(outcome) ==
    IF Raised(TryExcept(Body(outcome, "forecasts"), ForecastFailPrefix))
    THEN TryExcept(Body(outcome, "forecasts"), ForecastFailPrefix)
    ELSE Ret(ReverseCasts(TryExcept(Body(outcome, "forecasts"), ForecastFailPrefix).ret))

\* get_weather_forecast from the outcome of its request on
ForecastResult(outcome) == TryExcept(Body(outcome, "forecasts"), ForecastFailPrefix)

RequestsWithRetry(call, outcome) ==
    IF IsNetworkFailure(outcome) \/ ~is_success(outcome.status_code)
    THEN Append(call.requests, call.requests[1])
    ELSE call.requests

\* the requests a call has issued when it returns: the code after
\* "await client.get" issues none
RequestsAtReturn(call, outcome) == call.requests

----------------------------------------------------------------------------
(* The inputs: constructor arguments, city codes, upstream outcomes *)

\* the constructions of the repository, as (api_key, base_url) arguments:
\* GaodeWeatherAPI() of default_api, and the fixture of the tests
Constructions ==
    { << JNull, JNull >>,
      << S("test_key"), S("https://test.example.com/v3/weather") >> }

\* city codes (adcode)
Cities == { S("110000"), S("310000") }

\* the live record of the tests (晴 = qing, 西 = xi)
RecBeijing ==
    JObj([province |-> S("beijing"), city |-> S("beijing shi"), adcode |-> S("110000"),
          weather |-> S("qing"), temperature |-> S("25"), winddirection |-> S("xi"),
          windpower |-> S("4"), humidity |-> S("30"),
          reporttime |-> S("2025-04-01 15:00:00")])
\* a live record of another city
RecShanghai ==
    JObj([province |-> S("shanghai"), city |-> S("shanghai shi"), adcode |-> S("310000"),
          temperature |-> S("18")])
\* a live record that has a key named "error"
RecErrorKey == With(RecBeijing, "error", S("sensor offline"))

\* what the first element of "lives" is drawn from, and the later elements
FirstLives == { RecBeijing, RecErrorKey, JNull }
RestLives == { RecShanghai }

\* the two day entries of the tests, shortened (多云 = duoyun)
Day1 == JObj([date |-> S("2025-04-01"), week |-> S("2"), dayweather |-> S("qing"),
              daytemp |-> S("28")])
Day2 == JObj([date |-> S("2025-04-02"), week |-> S("3"), dayweather |-> S("duoyun"),
              daytemp |-> S("25")])
Days == { Day1, Day2 }

\* a forecast group with the given day entries
Group(casts) ==
    JObj([city |-> S("beijing shi"), adcode |-> S("110000"), province |-> S("beijing"),
          reporttime |-> S("2025-04-01 15:00:00"), casts |-> JList(casts)])
\* a forecast group of another city
GroupShanghai == JObj([city |-> S("shanghai shi"), adcode |-> S("310000"),
                       casts |-> JList(<< Day2 >>)])
\* a forecast group that has a key named "error"
GroupErrorKey == With(Group(<< Day1 >>), "error", S("partial data"))

FirstGroups == { Group(c) : c \in SeqsUpTo(Days, MaxCasts) } \cup { GroupErrorKey }
RestGroups == { GroupShanghai }

\* the arrays of at most n elements: empty, or a first element and the rest
Arrays(Firsts, Rest, n) ==
    { JList(<< >>) } \cup
    { JList(<< f >> \o t) : f \in Firsts, t \in SeqsUpTo(Rest, n - 1) }

\* values under "lives" / "forecasts" that are not arrays
NotArrays ==
    { JNull, JStr(<< >>), JStr(<< "a", "b" >>), JNum(5), JObj([k |-> JNum(1)]) }

LivesValues == Arrays(FirstLives, RestLives, MaxGroups) \cup NotArrays
ForecastsValues == Arrays(FirstGroups, RestGroups, MaxGroups) \cup NotArrays

GoodLives == JList(<< RecBeijing >>)
GoodForecasts == JList(<< Group(<< Day1, Day2 >>) >>)

\* envelopes without an array
EnvOK == JObj([status |-> S("1"), count |-> S("1"), info |-> S("OK")])
EnvInvalidKey == JObj([status |-> S("0"), info |-> S("INVALID_KEY"), infocode |-> S("10001")])
EnvNumStatus == JObj([status |-> JNum(1), info |-> S("OK")])
EnvNoStatus == JObj([info |-> S("OK")])
FailureEnvs == { EnvInvalidKey, EnvNumStatus, EnvNoStatus }

\* an envelope with a good "lives" and a good "forecasts" array
BothArrays(e) == With(With(e, "lives", GoodLives), "forecasts", GoodForecasts)

\* decoded bodies that are JSON objects
ObjectBodies ==
    { EnvOK } \cup FailureEnvs
    \cup { With(EnvOK, "lives", v) : v \in LivesValues }
    \cup { With(EnvOK, "forecasts", v) : v \in ForecastsValues }
    \cup { BothArrays(e) : e \in FailureEnvs \cup { EnvOK } }

\* decoded bodies that are JSON but not objects
NotObjectBodies == { GoodLives, S("1"), JNum(1), JNull }

Bodies == ObjectBodies \cup NotObjectBodies

Response(code, content) == [status_code |-> code, content |-> content]

\* status codes around and away from the 2xx range
OtherCodes == { 199, 299, 300, 404 }

\* the exceptions client.get raises
NetworkFailures ==
    { [exc |-> Exc("ConnectError", << "connection refused" >>)],
      [exc |-> Exc("HTTPError", << "wangluo lianjie cuowu" >>)] }

Outcomes ==
    NetworkFailures
    \cup { Response(200, [json |-> b]) : b \in Bodies }
    \cup { Response(200, [junk |-> TRUE]) }
    \cup { Response(c, [json |-> BothArrays(EnvOK)]) : c \in OtherCodes }
    \cup { Response(c, [junk |-> TRUE]) : c \in OtherCodes }

----------------------------------------------------------------------------
(* The state machine *)

NoReturn == [pc |-> "none"]

\* the history is not kept
Untracked == [kept |-> FALSE]
\* the history before any call came back
NoHistory == [kept |-> TRUE, count |-> 0, first |-> NoReturn]

\* the history after one more call came back with the record
Recorded(h, record) ==
    IF ~h.kept THEN h
    ELSE [kept |-> TRUE, count |-> h.count + 1,
          first |-> IF h.count = 0 THEN record ELSE h.first]

\* one more call may come back
MayReturn == IF history.kept THEN history.count < MaxReturns ELSE TRUE

\* GaodeWeatherAPI(api_key, base_url) for arguments of the set
ConstructedWith(Args) ==
    /\ \E args \in Args :
          /\ ctor_args = args
          /\ api_key = init_api_key(args[1])
          /\ base_url = init_base_url(args[2])
          /\ warnings = init_warnings(init_api_key(args[1]))
    /\ calls = EmptyBag
    /\ returned = NoReturn

\* a gateway built as the repository builds it
Constructed == ConstructedWith(Constructions)

\* the components other than the gateway and the tools, not started
\* no file
Absent == [exists |-> FALSE]

\* RotatingFile(stdout_stderr_log, max_bytes=5*1024*1024, backup_count=3)
max_bytes == 5 * 1024 * 1024
backup_count == 3

\* the names of the log directory: 0 for filename, i for filename.i
FileNames == 0..(backup_count + 1)

\* the threads of main
Threads == { "main", "monitor", "timer" }

\* main before its monitor thread is started
ShutdownIdle ==
    /\ pc = [ t \in Threads |-> "unset" ]
    /\ restoring = [ t \in Threads |-> "idle" ]
    /\ running = TRUE
    /\ exit_requested = FALSE
    /\ terminal_restored = FALSE
    /\ global_terminal_settings = FALSE
    /\ terminal = "cooked"
    /\ tcsetattr_calls = 0
    /\ signals = << >>
    /\ process = "running"
    /\ seen_running = "unset"
    /\ quit_keys = 0

\* no RotatingFile yet
RotatingIdle ==
    /\ disk = [ name \in FileNames |-> Absent ]
    /\ file_size = 0

OthersIdle ==
    /\ resource_read = NoReturn
    /\ handled = NoReturn
    /\ RotatingIdle
    /\ ShutdownIdle

\* the components other than the gateway, not started
OutsideIdle ==
    /\ tool_returned = NoReturn
    /\ OthersIdle

Init ==
    /\ Constructed
    /\ history = Untracked
    /\ OutsideIdle

\* the calls that are waiting for their response
InFlight == BagToSet(calls)

\* a call suspended in "await client.get": its locals and what it has sent
Awaiting(op, city, request) ==
    [op |-> op, city |-> city, requests |-> << request >>]

\* get_weather_live(city) up to the await of its request
CallLive(city) ==
    /\ BagCardinality(calls) < MaxInFlight
    /\ calls' = calls (+) SetToBag({ Awaiting("live", city,
                                              LiveRequest(api_key, base_url, city)) })
    /\ UNCHANGED << config, returned, history >>
    /\ UNCHANGED outside

\* get_weather_forecast(city) up to the await of its request
CallForecast(city) ==
    /\ BagCardinality(calls) < MaxInFlight
    /\ calls' = calls (+) SetToBag({ Awaiting("forecast", city,
                                              ForecastRequest(api_key, base_url, city)) })
    /\ UNCHANGED << config, returned, history >>
    /\ UNCHANGED outside

\* what the caller of the call observes when the call ends
Finished(call, outcome, result) ==
    [pc |-> "returned", op |-> call.op, city |-> call.city,
     outcome |-> outcome, requests |-> RequestsAtReturn(call, outcome),
     result |-> result]

\* get_weather_live from the end of its request to its return
ReturnLive(call, outcome) ==
    /\ call \in InFlight
    /\ call.op = "live"
    /\ MayReturn
    /\ returned' = Finished(call, outcome, LiveResult(outcome))
    /\ history' = Recorded(history, returned')
    /\ calls' = calls (-) SetToBag({ call })
    /\ UNCHANGED config
    /\ UNCHANGED outside

\* get_weather_forecast from the end of its request to its return
ReturnForecast(call, outcome) ==
    /\ call \in InFlight
    /\ call.op = "forecast"
    /\ MayReturn
    /\ returned' = Finished(call, outcome, ForecastResult(outcome))
    /\ history' = Recorded(history, returned')
    /\ calls' = calls (-) SetToBag({ call })
    /\ UNCHANGED config
    /\ UNCHANGED outside

Next ==
    \/ \E city \in Cities : CallLive(city)
    \/ \E city \in Cities : CallForecast(city)
    \/ \E call \in InFlight : \E outcome \in Outcomes : ReturnLive(call, outcome)
    \/ \E call \in InFlight : \E outcome \in Outcomes : ReturnForecast(call, outcome)

Spec == Init /\ [][Next]_vars

----------------------------------------------------------------------------
(* The gateway with the history of its calls, on a few outcomes *)

\* a refused connection, a success with both arrays, a success with another
\* record, the INVALID_KEY envelope, and a 404
FewOutcomes ==
    { [exc |-> Exc("ConnectError", << "connection refused" >>)],
      Response(200, [json |-> BothArrays(EnvOK)]),
      Response(200, [json |-> With(EnvOK, "lives", JList(<< RecShanghai >>))]),
      Response(200, [json |-> EnvInvalidKey]),
      Response(404, [json |-> BothArrays(EnvOK)]) }

InitIndep ==
    /\ Constructed
    /\ history = NoHistory
    /\ OutsideIdle

NextIndep ==
    \/ \E city \in Cities : CallLive(city)
    \/ \E city \in Cities : CallForecast(city)
    \/ \E call \in InFlight : \E outcome \in FewOutcomes : ReturnLive(call, outcome)
    \/ \E call \in InFlight : \E outcome \in FewOutcomes : ReturnForecast(call, outcome)

SpecIndep == InitIndep /\ [][NextIndep]_vars

----------------------------------------------------------------------------
(* The constructor on more arguments *)

\* api_key arguments: None, "", the placeholder itself, and real keys
KeyArgs == { JNull, JStr(<< >>), S("your_amap_key_here"), S("test_key"), S("prod_key") }
\* base_url arguments: None, "", and URLs
UrlArgs == { JNull, JStr(<< >>), S("https://test.example.com/v3/weather"),
             S("http://localhost:9000") }

InitCtor ==
    /\ ConstructedWith(KeyArgs \X UrlArgs)
    /\ history = Untracked
    /\ OutsideIdle

SpecCtor == InitCtor /\ [][NextIndep]_vars

----------------------------------------------------------------------------
(* server.py: the tool handlers *)

ForecastToolTargetCrossed == "live"

\* the gateway operation the handler get_weather_live awaits
LiveToolTarget == "live"
\* the gateway operation the handler get_weather_forecast awaits
ForecastToolTarget == "forecast"

\* weather_api.<op>(city) up to the await of its request
GatewayCall(op, city) ==
    IF op = "live"
    THEN Awaiting("live", city, LiveRequest(api_key, base_url, city))
    ELSE Awaiting("forecast", city, ForecastRequest(api_key, base_url, city))

\* weather_api.<op>(city) from the outcome of its request on
GatewayResult(op, outcome) ==
    IF op = "live" THEN LiveResult(outcome) ELSE ForecastResult(outcome)

\* "return await weather_api.<op>(city)": what the handler hands back
ToolValue(result) == result

\* a handler suspended in its gateway call
ToolAwaiting(tool, city, op) ==
    [tool |-> tool, arg |-> city] @@ GatewayCall(op, city)

\* weather_api = GaodeWeatherAPI()
InitTool ==
    /\ ConstructedWith({ << JNull, JNull >> })
    /\ history = Untracked
    /\ OutsideIdle

\* the tool get_weather_live(city) up to the await inside the gateway
ToolCallLive(city) ==
    /\ BagCardinality(calls) < MaxInFlight
    /\ calls' = calls (+) SetToBag({ ToolAwaiting("get_weather_live", city, LiveToolTarget) })
    /\ UNCHANGED << config, returned, history, tools, others >>

\* the tool get_weather_forecast(city) up to the await inside the gateway
ToolCallForecast(city) ==
    /\ BagCardinality(calls) < MaxInFlight
    /\ calls' = calls (+) SetToBag({ ToolAwaiting("get_weather_forecast", city,
                                                   ForecastToolTarget) })
    /\ UNCHANGED << config, returned, history, tools, others >>

\* a tool from the end of the request of its gateway call to its return
ToolReturn(call, outcome) ==
    /\ call \in InFlight
    /\ returned' = Finished(call, outcome, GatewayResult(call.op, outcome))
    /\ tool_returned' =
          [pc |-> "returned", tool |-> call.tool, arg |-> call.arg,
           value |-> ToolValue(GatewayResult(call.op, outcome))]
    /\ calls' = calls (-) SetToBag({ call })
    /\ UNCHANGED << config, history, others >>

\* get_weather_live from the end of the request to its return
ToolReturnLive(call, outcome) ==
    /\ call \in InFlight
    /\ call.tool = "get_weather_live"
    /\ ToolReturn(call, outcome)

\* get_weather_forecast from the end of the request to its return
ToolReturnForecast(call, outcome) ==
    /\ call \in InFlight
    /\ call.tool = "get_weather_forecast"
    /\ ToolReturn(call, outcome)

NextTool ==
    \/ \E city \in Cities : ToolCallLive(city)
    \/ \E city \in Cities : ToolCallForecast(city)
    \/ \E call \in InFlight : \E outcome \in Outcomes : ToolReturnLive(call, outcome)
    \/ \E call \in InFlight : \E outcome \in Outcomes : ToolReturnForecast(call, outcome)

SpecTool == InitTool /\ [][NextTool]_vars

----------------------------------------------------------------------------
(* Vocabulary of the properties, stated on what a caller can observe *)

\* a call has come back
HasReturned == returned.pc = "returned"
LiveReturned == HasReturned /\ returned.op = "live"
ForecastReturned == HasReturned /\ returned.op = "forecast"

\* the request ended in an exception of the transport
NetworkFailed == HasReturned /\ "exc" \in DOMAIN returned.outcome
\* the request ended in a response
Responded == HasReturned /\ "status_code" \in DOMAIN returned.outcome
\* ... with a 2xx status code
Responded2xx ==
    Responded /\ returned.outcome.status_code \in 200..299
\* ... with another status code
RespondedNot2xx == Responded /\ returned.outcome.status_code \notin 200..299
\* a 2xx response whose content is JSON
Decoded == Responded2xx /\ "json" \in DOMAIN returned.outcome.content
\* the decoded body of such a response
DecodedBody == returned.outcome.content.json
\* a 2xx response whose decoded body is a JSON object
DecodedObject == Decoded /\ "obj" \in DOMAIN DecodedBody

\* the body's status is "1"
StatusIsOne ==
    /\ "status" \in DOMAIN DecodedBody.obj
    /\ DecodedBody.obj.status = [str |-> << "1" >>]

\* the body has a non-empty array under the key
HasNonEmptyArray(key) ==
    /\ key \in DOMAIN DecodedBody.obj
    /\ "list" \in DOMAIN DecodedBody.obj[key]
    /\ Len(DecodedBody.obj[key].list) >= 1

\* the body has nothing, null, an empty array or an empty string under the key
MissingOrEmpty(key) ==
    \/ key \notin DOMAIN DecodedBody.obj
    \/ DecodedBody.obj[key] \in { [null |-> TRUE], [list |-> << >>], [str |-> << >>] }

\* the body has a value under the key that is neither an array nor null
UnexpectedType(key) ==
    /\ key \in DOMAIN DecodedBody.obj
    /\ "list" \notin DOMAIN DecodedBody.obj[key]
    /\ "null" \notin DOMAIN DecodedBody.obj[key]

\* the key of the array the returned operation reads
ArrayKey == IF returned.op = "live" THEN "lives" ELSE "forecasts"

\* the call came back with a value (no exception crossed the call)
ReturnedValue == HasReturned /\ "ret" \in DOMAIN returned.result
\* the value
Value == returned.result.ret

\* v is an ErrorResult: a dict with a str under "error", possibly
\* "raw_response", and nothing else
IsErrorResult(v) ==
    /\ "obj" \in DOMAIN v
    /\ "error" \in DOMAIN v.obj
    /\ DOMAIN v.obj \subseteq { "error", "raw_response" }
    /\ "str" \in DOMAIN v.obj.error

\* v is a success record: a dict without "error"
IsSuccessRecord(v) ==
    /\ "obj" \in DOMAIN v
    /\ "error" \notin DOMAIN v.obj

\* the text of the error message of an ErrorResult
Message == Value.obj.error.str

\* the text contains the unit
Contains(text, unit) == \E i \in 1..Len(text) : text[i] = unit

\* the text starts with the prefix
StartsWith(text, prefix) ==
    /\ Len(text) >= Len(prefix)
    /\ SubSeq(text, 1, Len(prefix)) = prefix

----------------------------------------------------------------------------
(* C1 *)

\* C1: when the response is 2xx with a JSON object body whose status is "1"
\* and whose "lives" is an array of at least one element, get_weather_live
\* returns the first element of that array, equal to it in every field.
C1_LiveReturnsFirstRecord ==
    (LiveReturned /\ DecodedObject /\ StatusIsOne /\ HasNonEmptyArray("lives"))
        => /\ ReturnedValue
           /\ Value = DecodedBody.obj.lives.list[1]

\* a live call got two records and came back with the first, a record whose
\* temperature is the string "25"
C1_Witness ==
    /\ LiveReturned /\ DecodedObject /\ StatusIsOne /\ HasNonEmptyArray("lives")
    /\ Len(DecodedBody.obj.lives.list) = 2
    /\ DecodedBody.obj.lives.list[1] # DecodedBody.obj.lives.list[2]
    /\ ReturnedValue
    /\ "obj" \in DOMAIN Value
    /\ Value.obj.temperature = [str |-> << "25" >>]
    /\ Value.obj.city = [str |-> << "beijing shi" >>]

----------------------------------------------------------------------------
(* C2 *)

\* C2: when the response is 2xx with a JSON object body whose status is not
\* "1", or whose "lives" is missing or empty, get_weather_live returns
\* {"error": <the one shape message>, "raw_response": <the decoded body>}.
C2_LiveShapeErrorCarriesBody ==
    (LiveReturned /\ DecodedObject /\ (~StatusIsOne \/ MissingOrEmpty("lives")))
        => /\ ReturnedValue
           /\ IsErrorResult(Value)
           /\ DOMAIN Value.obj = { "error", "raw_response" }
           /\ Value.obj.raw_response = DecodedBody
           /\ Message = << "API", "fanhui", "de", "shuju", "geshi", "bu", "zhengque" >>

\* a live call got the INVALID_KEY failure envelope and came back with it
\* under raw_response
C2_Witness ==
    /\ LiveReturned /\ DecodedObject /\ ~StatusIsOne
    /\ "status" \in DOMAIN DecodedBody.obj
    /\ DecodedBody.obj.status = [str |-> << "0" >>]
    /\ "lives" \notin DOMAIN DecodedBody.obj
    /\ ReturnedValue
    /\ "raw_response" \in DOMAIN Value.obj
    /\ Value.obj.raw_response.obj.info = [str |-> << "INVALID_KEY" >>]

----------------------------------------------------------------------------
(* C3 *)

\* the first forecast group of the body is a dict with an array of casts
FirstGroupHasCasts ==
    /\ HasNonEmptyArray("forecasts")
    /\ "obj" \in DOMAIN DecodedBody.obj.forecasts.list[1]
    /\ "casts" \in DOMAIN DecodedBody.obj.forecasts.list[1].obj
    /\ "list" \in DOMAIN DecodedBody.obj.forecasts.list[1].obj.casts
UpstreamCasts == DecodedBody.obj.forecasts.list[1].obj.casts.list

\* C3: when the response is a success whose first forecast group has N casts,
\* get_weather_forecast returns that group, with N casts, cast i of the result
\* being cast i of upstream.
C3_ForecastKeepsCastsInOrder ==
    (ForecastReturned /\ DecodedObject /\ StatusIsOne /\ FirstGroupHasCasts)
        => /\ ReturnedValue
           /\ Value = DecodedBody.obj.forecasts.list[1]
           /\ Len(Value.obj.casts.list) = Len(UpstreamCasts)
           /\ \A i \in 1..Len(UpstreamCasts) : Value.obj.casts.list[i] = UpstreamCasts[i]

\* a forecast call got the days 2025-04-01, 2025-04-02 in that order, and a
\* second group, and came back with the two days in that order
C3_Witness ==
    /\ ForecastReturned /\ DecodedObject /\ StatusIsOne /\ FirstGroupHasCasts
    /\ Len(DecodedBody.obj.forecasts.list) = 2
    /\ Len(UpstreamCasts) = 2
    /\ UpstreamCasts[1].obj.date = [str |-> << "2025-04-01" >>]
    /\ UpstreamCasts[2].obj.date = [str |-> << "2025-04-02" >>]
    /\ ReturnedValue
    /\ Value.obj.casts.list[1].obj.date = [str |-> << "2025-04-01" >>]

----------------------------------------------------------------------------
(* C4 *)

\* the words that name an operation: the English name of the statement and
\* the word of the source's language (实时 = shishi, 预报 = yubao)
OperationNames(op) ==
    IF op = "live" THEN { "live", "shishi" } ELSE { "forecast", "yubao" }

\* C4 as stated: after a network failure the call returns an ErrorResult whose
\* message contains the name of the operation.
C4_MessageNamesOperation ==
    NetworkFailed
        => /\ ReturnedValue
           /\ IsErrorResult(Value)
           /\ \E name \in OperationNames(returned.op) : Contains(Message, name)

\* C4 as amended: after a network failure the call returns an ErrorResult
\* without raw_response; the message of get_weather_forecast is
\* "获取天气预报数据失败: " and the cause, which contains the word 预报
\* (forecast); the message of get_weather_live is "获取天气数据失败: " and the
\* cause, and the words before the cause do not name the operation.
C4_NetworkFailureMessage ==
    NetworkFailed
        => /\ ReturnedValue
           /\ IsErrorResult(Value)
           /\ DOMAIN Value.obj = { "error" }
           /\ returned.op = "forecast"
                => /\ Message = << "huoqu", "tianqi", "yubao", "shuju", "shibai", ": " >>
                                    \o returned.outcome.exc.text
                   /\ Contains(Message, "yubao")
           /\ returned.op = "live"
                => /\ Message = << "huoqu", "tianqi", "shuju", "shibai", ": " >>
                                    \o returned.outcome.exc.text
                   /\ \A name \in OperationNames("live") :
                        ~Contains(SubSeq(Message, 1, 5), name)

\* a live call whose connection was refused came back with an ErrorResult
C4_Witness ==
    /\ NetworkFailed
    /\ returned.op = "live"
    /\ returned.outcome.exc.text = << "connection refused" >>
    /\ ReturnedValue
    /\ IsErrorResult(Value)

----------------------------------------------------------------------------
(* C5 *)

\* the cases the statement counts as failures
FailureCase ==
    \/ NetworkFailed
    \/ RespondedNot2xx
    \/ Responded2xx /\ ~Decoded
    \/ Decoded /\ ~DecodedObject
    \/ DecodedObject /\ ~StatusIsOne
    \/ DecodedObject /\ MissingOrEmpty(ArrayKey)
    \/ DecodedObject /\ UnexpectedType(ArrayKey)

\* C5: a call always comes back with a value, never with an exception, and
\* in every failure case (network exception, non-2xx status, body not JSON,
\* body not an object, status not "1", array missing, empty or of an
\* unexpected type) the value is an ErrorResult.
C5_NeverRaisesAndFailuresAreErrorResults ==
    HasReturned
        => /\ ReturnedValue
           /\ FailureCase => IsErrorResult(Value)

----------------------------------------------------------------------------
(* C6 *)

\* the call succeeded: a 2xx response, a JSON object with status "1" and a
\* non-empty array for the operation
Succeeded == DecodedObject /\ StatusIsOne /\ HasNonEmptyArray(ArrayKey)

\* C6: every returned value is either a success record without "error" or an
\* ErrorResult, and it has the key "error" exactly when the call did not
\* succeed.
C6_ErrorKeyIsSoundDiscriminant ==
    HasReturned
        => /\ ReturnedValue
           /\ IsSuccessRecord(Value) \/ IsErrorResult(Value)
           /\ Succeeded <=> IsSuccessRecord(Value)

----------------------------------------------------------------------------
(* C7 *)

\* the request is a GET to {base_url}/weatherInfo
IsWeatherInfoGet(request) ==
    /\ request.method = "GET"
    /\ request.url = [str |-> base_url.str \o << "/weatherInfo" >>]

\* C7: a call that is waiting for its response has issued exactly one GET to
\* {base_url}/weatherInfo, and a call that has come back, with a record or
\* with an ErrorResult, has issued that one GET and no other.
C7_ExactlyOneGetPerCall ==
    /\ \A call \in InFlight :
          /\ Len(call.requests) = 1
          /\ IsWeatherInfoGet(call.requests[1])
    /\ HasReturned
          => /\ Len(returned.requests) = 1
             /\ IsWeatherInfoGet(returned.requests[1])

\* a call whose request failed in the network came back with an ErrorResult
\* after one GET
C7_Witness ==
    /\ NetworkFailed
    /\ ReturnedValue
    /\ IsErrorResult(Value)
    /\ Len(returned.requests) = 1

----------------------------------------------------------------------------
(* C8 *)

\* params is exactly key, city, output = "JSON" and extensions = mode
IsParams(params, city, mode) ==
    /\ "obj" \in DOMAIN params
    /\ DOMAIN params.obj = { "key", "city", "extensions", "output" }
    /\ params.obj.key = api_key
    /\ params.obj.city = city
    /\ params.obj.output = [str |-> << "JSON" >>]
    /\ params.obj.extensions = [str |-> << mode >>]

\* the mode flag of an operation
Mode(op) == IF op = "live" THEN "base" ELSE "all"

\* C8: every request of a call carries exactly key = api_key, city = the
\* city of the call, output = "JSON", and extensions = "base" for
\* get_weather_live, "all" for get_weather_forecast.
C8_RequestParams ==
    /\ \A call \in InFlight :
          \A i \in 1..Len(call.requests) :
              IsParams(call.requests[i].params, call.city, Mode(call.op))
    /\ HasReturned
          => \A i \in 1..Len(returned.requests) :
                IsParams(returned.requests[i].params, returned.city, Mode(returned.op))

\* a live call and a forecast call for different cities are waiting for their
\* responses at the same time
C8_Witness ==
    \E c, d \in InFlight :
        /\ c.op = "live"
        /\ d.op = "forecast"
        /\ c.city # d.city
        /\ d.requests[1].params.obj.extensions = [str |-> << "all" >>]

----------------------------------------------------------------------------
(* C9 *)

\* the text of the cause of a transport failure: the text of the exception
\* of the network, or of the one raised for the status code
CauseKnown == NetworkFailed
CauseText == returned.outcome.exc.text

\* C9: when the request of get_weather_live fails in the network or its
\* response is not 2xx, the call returns {"error": "获取天气数据失败: " +
\* cause} with no raw_response, whatever the body of the response is.
C9_LiveTransportFailure ==
    (LiveReturned /\ (NetworkFailed \/ RespondedNot2xx))
        => /\ ReturnedValue
           /\ IsErrorResult(Value)
           /\ DOMAIN Value.obj = { "error" }
           /\ StartsWith(Message, << "huoqu", "tianqi", "shuju", "shibai", ": " >>)
           /\ Len(Message) > 5
           /\ CauseKnown => Message = << "huoqu", "tianqi", "shuju", "shibai", ": " >> \o CauseText

\* a live call got 404 with a well-formed success envelope as body and came
\* back with an ErrorResult
C9_Witness ==
    /\ LiveReturned /\ RespondedNot2xx
    /\ returned.outcome.status_code = 404
    /\ "json" \in DOMAIN returned.outcome.content
    /\ returned.outcome.content.json.obj.status = [str |-> << "1" >>]
    /\ "lives" \in DOMAIN returned.outcome.content.json.obj
    /\ ReturnedValue
    /\ IsErrorResult(Value)

----------------------------------------------------------------------------
(* C10 *)

\* C10: get_weather_forecast returns {"error": <the shape message>,
\* "raw_response": <the decoded body>} for a body whose status is not "1" or
\* whose "forecasts" is missing or empty, and {"error": "获取天气预报数据失败: "
\* + cause} for a transport failure, a prefix that is not the one of
\* get_weather_live.
C10_ForecastErrorNormalization ==
    /\ (ForecastReturned /\ DecodedObject /\ (~StatusIsOne \/ MissingOrEmpty("forecasts")))
          => /\ ReturnedValue
             /\ IsErrorResult(Value)
             /\ DOMAIN Value.obj = { "error", "raw_response" }
             /\ Value.obj.raw_response = DecodedBody
             /\ Message = << "API", "fanhui", "de", "shuju", "geshi", "bu", "zhengque" >>
    /\ (ForecastReturned /\ (NetworkFailed \/ RespondedNot2xx))
          => /\ ReturnedValue
             /\ IsErrorResult(Value)
             /\ DOMAIN Value.obj = { "error" }
             /\ StartsWith(Message, << "huoqu", "tianqi", "yubao", "shuju", "shibai", ": " >>)
             /\ ~StartsWith(Message, << "huoqu", "tianqi", "shuju", "shibai", ": " >>)
             /\ Len(Message) > 6
             /\ CauseKnown => Message = << "huoqu", "tianqi", "yubao", "shuju", "shibai", ": " >>
                                            \o CauseText

\* a forecast call got a success envelope with an empty "forecasts" array and
\* came back with the body under raw_response
C10_Witness ==
    /\ ForecastReturned /\ DecodedObject /\ StatusIsOne
    /\ "forecasts" \in DOMAIN DecodedBody.obj
    /\ DecodedBody.obj.forecasts = [list |-> << >>]
    /\ ReturnedValue
    /\ IsErrorResult(Value)
    /\ "raw_response" \in DOMAIN Value.obj

----------------------------------------------------------------------------
(* C11 *)

\* two records of calls that came back had the same operation, city and
\* upstream outcome
SameInputs(r1, r2) ==
    /\ r1.op = r2.op
    /\ r1.city = r2.city
    /\ r1.outcome = r2.outcome

\* C11: api_key and base_url never change after construction, and a call that
\* comes back, whatever calls came back before it and whatever calls are in
\* flight, gets the result and has sent the requests that the first call of
\* the run got and sent if that call had the same operation, city and upstream
\* outcome.
C11_CallsAreIndependent ==
    /\ [](history.kept /\ history.count >= 1 /\ SameInputs(history.first, returned)
            => /\ returned.result = history.first.result
               /\ returned.requests = history.first.requests)
    /\ [][api_key' = api_key /\ base_url' = base_url]_vars

\* the third call to come back had the operation, city and outcome of the
\* first, an ErrorResult, while a call for another city is in flight
C11_Witness ==
    /\ history.kept
    /\ history.count = 3
    /\ SameInputs(history.first, returned)
    /\ returned.op = "live"
    /\ IsErrorResult(returned.result.ret)
    /\ \E call \in InFlight : call.city # returned.city

----------------------------------------------------------------------------
(* C12 *)

\* a tool call has come back
ToolReturned == tool_returned.pc = "returned"

\* the gateway operation that matches the tool
MatchingOperation(tool) == IF tool = "get_weather_live" THEN "live" ELSE "forecast"

\* C12: when a tool handler comes back, the gateway call that just came back
\* was the matching operation for the handler's city, and the handler's value
\* is the value of that gateway call.
C12_ToolsForwardVerbatim ==
    ToolReturned
        => /\ HasReturned
           /\ returned.op = MatchingOperation(tool_returned.tool)
           /\ returned.city = tool_returned.arg
           /\ returned.requests[1].params.obj.city = tool_returned.arg
           /\ tool_returned.value = returned.result

\* the forecast tool came back for city 310000 with a forecast group, and
\* the live tool is waiting
C12_Witness ==
    /\ ToolReturned
    /\ tool_returned.tool = "get_weather_forecast"
    /\ tool_returned.arg = [str |-> << "310000" >>]
    /\ "ret" \in DOMAIN tool_returned.value
    /\ "obj" \in DOMAIN tool_returned.value.ret
    /\ "casts" \in DOMAIN tool_returned.value.ret.obj
    /\ \E call \in InFlight : call.tool = "get_weather_live"

----------------------------------------------------------------------------
(* C14 *)

\* the arguments of the constructor
KeyGiven == ctor_args[1]
UrlGiven == ctor_args[2]
Placeholder == [str |-> << "your_amap_key_here" >>]
IsGivenText(arg) == "str" \in DOMAIN arg
IsNonEmptyText(arg) == IsGivenText(arg) /\ Len(arg.str) > 0

\* C14 as stated: a gateway whose key is the placeholder has logged the
\* warning; a gateway built with a key other than the placeholder has logged
\* none and holds the key and the base URL it was given.
C14_AnyOtherKeyIsKept ==
    /\ api_key = Placeholder => warnings = 1
    /\ (IsGivenText(KeyGiven) /\ KeyGiven # Placeholder)
          => /\ warnings = 0
             /\ api_key = KeyGiven
             /\ IsGivenText(UrlGiven) => base_url = UrlGiven

\* C14 as amended: a gateway whose key is the placeholder (given, or taken by
\* default when the key argument is None or empty) has logged the warning
\* once and its calls carry that key; a gateway built with a non-empty key
\* other than the placeholder has logged none and holds that key; it holds the
\* base URL it was given when that is non-empty and the default one otherwise.
C14_PlaceholderWarns ==
    /\ api_key = Placeholder
          => /\ warnings = 1
             /\ \A call \in InFlight : call.requests[1].params.obj.key = Placeholder
    /\ (IsNonEmptyText(KeyGiven) /\ KeyGiven # Placeholder)
          => /\ warnings = 0
             /\ api_key = KeyGiven
    /\ ~IsNonEmptyText(KeyGiven) => api_key = Placeholder
    /\ IsNonEmptyText(UrlGiven) => base_url = UrlGiven
    /\ ~IsNonEmptyText(UrlGiven)
          => base_url = [str |-> << "https://restapi.amap.com/v3/weather" >>]

\* a gateway built without a key has logged the warning and a live call on
\* it has come back
C14_Witness ==
    /\ KeyGiven = [null |-> TRUE]
    /\ api_key = Placeholder
    /\ warnings = 1
    /\ LiveReturned
    /\ returned.requests[1].params.obj.key = Placeholder

----------------------------------------------------------------------------
(* server.py: the resource city_codes://{province} *)

MaxProvinceLen == 2

\* the characters of the names of the provinces and cities of the table,
\* one unit each
\* 北 京 上 海 广 东 江 苏 浙 / 州 深 圳 珠 南 无 锡 杭 宁 波 温
ProvinceChars == { "bei", "jing", "shang", "hai", "guang", "dong", "jiang", "su",
                   "zhe", "zhou" }

\* the province of a request: text over the characters
Provinces == SeqsUpTo(ProvinceChars, MaxProvinceLen)

\* the dict city_codes in the order of its literal: each province with its
\* cities and their codes in their order
city_codes ==
    << << << "bei", "jing" >>, << << << "bei", "jing" >>, "110000" >> >> >>,
       << << "shang", "hai" >>, << << << "shang", "hai" >>, "310000" >> >> >>,
       << << "guang", "dong" >>, << << << "guang", "zhou" >>, "440100" >>,
                                    << << "shen", "zhen" >>, "440300" >>,
                                    << << "zhu", "hai" >>, "440400" >> >> >>,
       << << "jiang", "su" >>, << << << "nan", "jing" >>, "320100" >>,
                                  << << "su", "zhou" >>, "320500" >>,
                                  << << "wu", "xi" >>, "320200" >> >> >>,
       << << "zhe", "jiang" >>, << << << "hang", "zhou" >>, "330100" >>,
                                   << << "ning", "bo" >>, "330200" >>,
                                   << << "wen", "zhou" >>, "330300" >> >> >> >>

\* city_codes.keys()
Keys == [ i \in 1..Len(city_codes) |-> city_codes[i][1] ]

\* province in city_codes
InCityCodes(province) == \E i \in 1..Len(city_codes) : city_codes[i][1] = province

ItemsOfFirst(province) == city_codes[1][2]

\* city_codes[province].items()
Items(province) ==
    city_codes[CHOOSE i \in 1..Len(city_codes) : city_codes[i][1] = province][2]

\* ", ".join(names)
RECURSIVE JoinComma(_)
JoinComma(names) ==
    IF Len(names) = 0 THEN << >>
    ELSE IF Len(names) = 1 THEN names[1]
    ELSE names[1] \o << ", " >> \o JoinComma(Tail(names))

\* for city, code in items: result += f"- {city}: {code}\n"
RECURSIVE CityLines(_)
CityLines(items) ==
    IF Len(items) = 0 THEN << >>
    ELSE << "- " >> \o items[1][1] \o << ": ", items[1][2], "\n" >>
            \o CityLines(Tail(items))

\* get_city_codes(province): the text returned
get_city_codes(province) ==
    IF InCityCodes(province)
    THEN \* f"{province}省主要城市代码:\n"
         province \o << "sheng", "zhuyao", "chengshi", "daima", ":\n" >>
                  \o CityLines(Items(province))
    ELSE \* f"未找到 {province} 的城市代码信息。可用的省份有: " + ", ".join(...)
         << "wei", "zhaodao", " " >> \o province
             \o << " ", "de", "chengshi", "daima", "xinxi", ".",
                   "keyong", "de", "shengfen", "you", ": " >>
             \o JoinComma(Keys)

InitCodes ==
    /\ Constructed
    /\ history = Untracked
    /\ OutsideIdle

\* a read of city_codes://{province}
ReadCityCodes(province) ==
    /\ resource_read' = [pc |-> "returned", province |-> province,
                         value |-> get_city_codes(province)]
    /\ UNCHANGED notResources

NextCodes == \E province \in Provinces : ReadCityCodes(province)

SpecCodes == InitCodes /\ [][NextCodes]_vars

----------------------------------------------------------------------------
(* C13 *)

\* the table of the resource as (province, city, code) triples
CodeTable ==
    { << << "bei", "jing" >>, << "bei", "jing" >>, "110000" >>,
      << << "shang", "hai" >>, << "shang", "hai" >>, "310000" >>,
      << << "guang", "dong" >>, << "guang", "zhou" >>, "440100" >>,
      << << "guang", "dong" >>, << "shen", "zhen" >>, "440300" >>,
      << << "guang", "dong" >>, << "zhu", "hai" >>, "440400" >>,
      << << "jiang", "su" >>, << "nan", "jing" >>, "320100" >>,
      << << "jiang", "su" >>, << "su", "zhou" >>, "320500" >>,
      << << "jiang", "su" >>, << "wu", "xi" >>, "320200" >>,
      << << "zhe", "jiang" >>, << "hang", "zhou" >>, "330100" >>,
      << << "zhe", "jiang" >>, << "ning", "bo" >>, "330200" >>,
      << << "zhe", "jiang" >>, << "wen", "zhou" >>, "330300" >> }

KnownProvinces == { t[1] : t \in CodeTable }

\* the text has the part as a run of consecutive units
HasPart(text, part) ==
    \E i \in 0..(Len(text) - Len(part)) : SubSeq(text, i + 1, i + Len(part)) = part

\* the line of a city and its code
PairLine(city, code) == << "- " >> \o city \o << ": ", code, "\n" >>

\* the text after the first ": " unit
AfterColon(text) ==
    IF \E i \in 1..Len(text) : text[i] = ": "
    THEN SubSeq(text, (CHOOSE i \in 1..Len(text) :
                          text[i] = ": " /\ \A j \in 1..(i - 1) : text[j] # ": ") + 1,
                Len(text))
    ELSE << >>

ResourceRead == resource_read.pc = "returned"

\* C13: a read for a province of the table returns a text (never an
\* exception) with the line of every city of that province and of no city of
\* another province; a read for any other province returns the not-found
\* text, which names the province asked for and lists every province of the
\* table after its colon.
C13_CityCodes ==
    ResourceRead =>
        /\ resource_read.value \in Seq(STRING)
        /\ resource_read.province \in KnownProvinces
              => \A t \in CodeTable :
                    HasPart(resource_read.value, PairLine(t[2], t[3]))
                        <=> t[1] = resource_read.province
        /\ resource_read.province \notin KnownProvinces
              => /\ StartsWith(resource_read.value,
                               << "wei", "zhaodao", " " >> \o resource_read.province)
                 /\ \A p \in KnownProvinces :
                        HasPart(AfterColon(resource_read.value), p)
                 /\ \A t \in CodeTable : ~Contains(resource_read.value, t[3])

\* the resource was read for Jiangsu and its text has the line of Wuxi
C13_Witness ==
    /\ ResourceRead
    /\ resource_read.province = << "jiang", "su" >>
    /\ HasPart(resource_read.value, << "- ", "wu", "xi", ": ", "320200", "\n" >>)

----------------------------------------------------------------------------
(* sse_server.py: SessionFormatMiddleware *)

\* A byte string is a sequence of units, one ASCII byte or one ASCII word
\* without "&", "=" or "-" each, and the bytes "xC3", "xA9" (the UTF-8
\* encoding of one accented letter) and "xFF" (never valid in UTF-8).  A str
\* is a sequence of characters: the same units, with "e_acute" for the
\* accented letter.

\* whether bytes.decode() succeeds (otherwise UnicodeDecodeError): every
\* "xC3" is followed by "xA9", every "xA9" follows "xC3", and there is no "xFF"
Decodable(bytes) ==
    \A i \in 1..Len(bytes) :
        /\ bytes[i] # "xFF"
        /\ bytes[i] = "xC3" => (i < Len(bytes) /\ bytes[i + 1] = "xA9")
        /\ bytes[i] = "xA9" => (i > 1 /\ bytes[i - 1] = "xC3")

\* bytes.decode() of bytes it can decode: the two bytes of the accented
\* letter become one character, every other byte is its own character
RECURSIVE Decode(_)
Decode(bytes) ==
    IF \E i \in 1..Len(bytes) : bytes[i] = "xC3"
    THEN LET i == CHOOSE i \in 1..Len(bytes) :
                      bytes[i] = "xC3" /\ \A j \in 1..(i - 1) : bytes[j] # "xC3"
         IN  SubSeq(bytes, 1, i - 1) \o << "e_acute" >>
                 \o Decode(SubSeq(bytes, i + 2, Len(bytes)))
    ELSE bytes

\* str.encode(): the accented letter becomes its two bytes
RECURSIVE Encode(_)
Encode(text) ==
    IF \E i \in 1..Len(text) : text[i] = "e_acute"
    THEN LET i == CHOOSE i \in 1..Len(text) :
                      text[i] = "e_acute" /\ \A j \in 1..(i - 1) : text[j] # "e_acute"
         IN  SubSeq(text, 1, i - 1) \o << "xC3", "xA9" >>
                 \o Encode(SubSeq(text, i + 1, Len(text)))
    ELSE text

\* part in text
In(part, text) ==
    \E i \in 0..(Len(text) - Len(part)) : SubSeq(text, i + 1, i + Len(part)) = part

\* the index of the first sep of the text, 0 when it has none
Find(text, sep) ==
    IF \E i \in 1..Len(text) : text[i] = sep
    THEN CHOOSE i \in 1..Len(text) : text[i] = sep /\ \A j \in 1..(i - 1) : text[j] # sep
    ELSE 0

\* text.split(sep)
RECURSIVE Split(_, _)
Split(text, sep) ==
    IF Find(text, sep) = 0 THEN << text >>
    ELSE << SubSeq(text, 1, Find(text, sep) - 1) >>
            \o Split(SubSeq(text, Find(text, sep) + 1, Len(text)), sep)

\* a dict is the sequence of its (key, value) pairs in insertion order
\* d[key] = value
DictSet(d, key, value) ==
    IF \E i \in 1..Len(d) : d[i][1] = key
    THEN [ i \in 1..Len(d) |-> IF d[i][1] = key THEN << key, value >> ELSE d[i] ]
    ELSE Append(d, << key, value >>)

\* d.get(key, default)
DictGet(d, key, default) ==
    IF \E i \in 1..Len(d) : d[i][1] = key
    THEN d[CHOOSE i \in 1..Len(d) : d[i][1] = key][2]
    ELSE default

\* for param in params: if "=" in param: key, value = param.split("=", 1);
\* query_params[key] = value
RECURSIVE ParseParams(_, _)
ParseParams(query_params, params) ==
    IF Len(params) = 0 THEN query_params
    ELSE IF Find(params[1], "=") = 0 THEN ParseParams(query_params, Tail(params))
    ELSE ParseParams(
             DictSet(query_params,
                     SubSeq(params[1], 1, Find(params[1], "=") - 1),
                     SubSeq(params[1], Find(params[1], "=") + 1, Len(params[1]))),
             Tail(params))

\* "&".join([f"{k}={v}" for k, v in query_params.items()])
RECURSIVE JoinParams(_)
JoinParams(query_params) ==
    IF Len(query_params) = 0 THEN << >>
    ELSE query_params[1][1] \o << "=" >> \o query_params[1][2]
            \o (IF Len(query_params) = 1 THEN << >>
                ELSE << "&" >> \o JoinParams(Tail(query_params)))

\* text[a:b] for 0 <= a <= b
Slice(text, a, b) ==
    SubSeq(text, a + 1, IF b < Len(text) THEN b ELSE Len(text))

\* session_id[:8] + "-" + session_id[8:12] + "-" + session_id[12:16] + "-"
\*     + session_id[16:20] + "-" + session_id[20:]
FormattedId(session_id) ==
    Slice(session_id, 0, 8) \o << "-" >> \o Slice(session_id, 8, 12) \o << "-" >>
        \o Slice(session_id, 12, 16) \o << "-" >> \o Slice(session_id, 16, 20)
        \o << "-" >> \o Slice(session_id, 20, Len(session_id))

\* if session_id and "-" not in session_id and len(session_id) == 32
NeedsFormat(session_id) ==
    /\ Len(session_id) > 0
    /\ ~In(<< "-" >>, session_id)
    /\ Len(session_id) = 32

\* the scope the wrapped app gets for a scope whose query string decodes
ScopeForApp(scope) ==
    LET query_params == ParseParams(<< >>, Split(Decode(scope.query_string), "&"))
        session_id == DictGet(query_params, << "session_id" >>, << >>)
    IN  IF NeedsFormat(session_id)
        THEN [scope EXCEPT !.query_string =
                 Encode(JoinParams(DictSet(query_params, << "session_id" >>,
                                           FormattedId(session_id))))]
        ELSE scope

\* SessionFormatMiddleware.__call__(scope, receive, send): the calls of the
\* wrapped app and the exception that left the middleware, if any
Middleware(scope) ==
    IF scope.type = "http" /\ In(<< "/", "messages", "/" >>, scope.path)
    THEN IF Decodable(scope.query_string)
         THEN [app_calls |-> << ScopeForApp(scope) >>, raised |-> "none"]
         ELSE [app_calls |-> << >>, raised |-> "UnicodeDecodeError"]
    ELSE [app_calls |-> << scope >>, raised |-> "none"]

MaxParams == 2

\* 32 characters
Hex32 ==
    << "0", "1", "2", "3", "4", "5", "6", "7", "8", "9", "a", "b", "c", "d", "e", "f",
       "0", "1", "2", "3", "4", "5", "6", "7", "8", "9", "a", "b", "c", "d", "e", "f" >>

\* an id in the shape of a UUID
Uuid36 ==
    << "0", "1", "2", "3", "4", "5", "6", "7", "-", "8", "9", "a", "b", "-",
       "c", "d", "e", "f", "-", "0", "1", "2", "3", "-",
       "4", "5", "6", "7", "8", "9", "a", "b", "c", "d", "e", "f" >>

\* values of session_id as bytes: 32, 31 and 0 characters, 32 characters
\* with a hyphen, a UUID, 32 and 31 characters the last of which takes two
\* bytes, and 32 bytes that are not UTF-8
SessionIds ==
    { Hex32, SubSeq(Hex32, 1, 31), << >>, [Hex32 EXCEPT ![9] = "-"], Uuid36,
      SubSeq(Hex32, 1, 31) \o << "xC3", "xA9" >>,
      SubSeq(Hex32, 1, 30) \o << "xC3", "xA9" >>,
      SubSeq(Hex32, 1, 31) \o << "xFF" >> }

\* the parameters of a query string
Params ==
    { << "session_id", "=" >> \o id : id \in SessionIds }
        \cup { << "x", "=", "1" >>, << "x", "=", "2" >>, << "y", "=", "a", "=", "b" >>,
               << "flag" >>, << "session_id" >>, << >> }

\* the parameters joined by "&"
RECURSIVE JoinAmp(_)
JoinAmp(params) ==
    IF Len(params) = 0 THEN << >>
    ELSE IF Len(params) = 1 THEN params[1]
    ELSE params[1] \o << "&" >> \o JoinAmp(Tail(params))

QueryStrings == { JoinAmp(params) : params \in SeqsUpTo(Params, MaxParams) }

\* scope["type"]
ScopeTypes == { "http", "websocket" }

\* scope.get("path", ""): /messages/, /v1/messages/x, /messages, /sse/ and
\* a scope without path
Paths ==
    { << "/", "messages", "/" >>, << "/", "v1", "/", "messages", "/", "x" >>,
      << "/", "messages" >>, << "/", "sse", "/" >>, << >> }

Scopes == [type : ScopeTypes, path : Paths, query_string : QueryStrings]

\* the middleware called with the scope, before its first statement
Received(scope) ==
    [pc |-> "received", scope |-> scope, app_calls |-> << >>, raised |-> "none"]

InitMiddleware ==
    /\ ConstructedWith({ << JNull, JNull >> })
    /\ history = Untracked
    /\ tool_returned = NoReturn
    /\ resource_read = NoReturn
    /\ RotatingIdle
    /\ ShutdownIdle
    /\ handled \in { Received(scope) : scope \in Scopes }

\* SessionFormatMiddleware.__call__ from its first statement to its end
Call ==
    /\ handled.pc = "received"
    /\ handled' = [pc |-> "done", scope |-> handled.scope,
                   app_calls |-> Middleware(handled.scope).app_calls,
                   raised |-> Middleware(handled.scope).raised]
    /\ UNCHANGED notMiddleware

\* the middleware called with the scope it gave the wrapped app
CallAgain ==
    /\ handled.pc = "done"
    /\ handled.raised = "none"
    /\ handled.app_calls[1] # handled.scope
    /\ handled' = Received(handled.app_calls[1])
    /\ UNCHANGED notMiddleware

NextMiddleware == Call \/ CallAgain

SpecMiddleware == InitMiddleware /\ [][NextMiddleware]_vars

----------------------------------------------------------------------------
(* C18 *)

\* the middleware is through with a request
Done == handled.pc = "done"

\* the segments of a query string between its "&"
Segments(bytes) == Split(bytes, "&")

\* the name of a segment: what is before its first "="
NameOf(segment) ==
    IF Find(segment, "=") = 0 THEN segment
    ELSE SubSeq(segment, 1, Find(segment, "=") - 1)

\* the bytes of a segment after its first "="
ValueOf(segment) ==
    IF Find(segment, "=") = 0 THEN << >>
    ELSE SubSeq(segment, Find(segment, "=") + 1, Len(segment))

IsSessionIdParam(segment) ==
    Find(segment, "=") > 0 /\ NameOf(segment) = << "session_id" >>

\* the value of the session_id parameter of a query string: of the last
\* one when there are several, empty when there is none
SessionIdOf(bytes) ==
    LET segs == Segments(bytes)
        at == { i \in 1..Len(segs) : IsSessionIdParam(segs[i]) }
    IN  IF at = {} THEN << >>
        ELSE ValueOf(segs[CHOOSE i \in at : \A j \in at : j <= i])

\* the number of characters of a value: a two-byte letter counts once
CharCount(bytes) == Cardinality({ i \in 1..Len(bytes) : bytes[i] # "xA9" })

\* the request is one the middleware is to rewrite
RewriteCondition(scope) ==
    /\ scope.type = "http"
    /\ HasPart(scope.path, << "/", "messages", "/" >>)
    /\ CharCount(SessionIdOf(scope.query_string)) = 32
    /\ ~Contains(SessionIdOf(scope.query_string), "-")

\* the wrapped app got another session_id than the request had
Rewritten ==
    /\ Done
    /\ Len(handled.app_calls) >= 1
    /\ SessionIdOf(handled.app_calls[1].query_string)
          # SessionIdOf(handled.scope.query_string)

\* the value without its hyphens
IsNoHyphen(unit) == unit # "-"
NoHyphens(bytes) == SelectSeq(bytes, IsNoHyphen)

\* C18: the middleware rewrites session_id exactly when the request is an
\* http request whose path contains /messages/ and whose session_id has 32
\* characters and no hyphen; the rewritten value has hyphens exactly after
\* its characters 8, 12, 16 and 20 and is the original once they are removed.
C18_RewritesExactlyWhen ==
    Done =>
        /\ Rewritten <=> RewriteCondition(handled.scope)
        /\ Rewritten =>
              LET new == Decode(SessionIdOf(handled.app_calls[1].query_string))
              IN  /\ Len(new) = 36
                  /\ \A i \in 1..36 : new[i] = "-" <=> i \in { 9, 14, 19, 24 }
                  /\ Encode(NoHyphens(new)) = SessionIdOf(handled.scope.query_string)

----------------------------------------------------------------------------
(* C19 *)

\* C19: the middleware calls the wrapped app exactly once for every request;
\* when the rewrite condition does not hold the app gets the query string of
\* the request, and when it holds every parameter of the request other than
\* session_id is, at its position, a parameter of the query string the app
\* gets.
C19_ForwardsOnceAndKeepsTheRest ==
    Done =>
        /\ Len(handled.app_calls) = 1
        /\ ~RewriteCondition(handled.scope)
              => handled.app_calls[1].query_string = handled.scope.query_string
        /\ RewriteCondition(handled.scope)
              => LET old == Segments(handled.scope.query_string)
                     new == Segments(handled.app_calls[1].query_string)
                 IN  \A i \in 1..Len(old) :
                        (Len(old[i]) > 0 /\ ~IsSessionIdParam(old[i]))
                            => i <= Len(new) /\ new[i] = old[i]

----------------------------------------------------------------------------
(* sse_server.py: RotatingFile *)

MaxRollovers == 4

\* a file: the order number of its creation and its size in bytes
File(gen, size) == [exists |-> TRUE, gen |-> gen, size |-> size]

\* os.path.exists
Exists(d, name) == d[name].exists

\* os.remove
Remove(d, name) == [d EXCEPT ![name] = Absent]

\* os.rename(src, dst) of an existing src: dst is replaced if it exists
Rename(d, src, dst) == [d EXCEPT ![dst] = d[src], ![src] = Absent]

\* open(filename, 'w'): a new empty file in place of what the name had
OpenW(d, name, gen) == [d EXCEPT ![name] = File(gen, 0)]

\* open(filename, 'a'): the file of the name, created empty if there is none
OpenA(d, name, gen) == IF Exists(d, name) THEN d ELSE OpenW(d, name, gen)

\* if self.backup_count > 0 and os.path.exists(f"{filename}.{backup_count}"):
\*     os.remove(...)
RemoveOldest(d) ==
    IF backup_count > 0 /\ Exists(d, backup_count) THEN Remove(d, backup_count) ELSE d

FirstShiftedSkipsOne == backup_count - 2

\* the start of range(self.backup_count - 1, 0, -1)
FirstShifted == backup_count - 1

\* for i in range(i, 0, -1): if os.path.exists(f"{filename}.{i}"):
\*     os.rename(f"{filename}.{i}", f"{filename}.{i+1}")
RECURSIVE ShiftBackups(_, _)
ShiftBackups(d, i) ==
    IF i <= 0 THEN d
    ELSE ShiftBackups(IF Exists(d, i) THEN Rename(d, i, i + 1) ELSE d, i - 1)

\* if os.path.exists(self.filename): os.rename(self.filename, f"{filename}.1")
MoveCurrent(d) == IF Exists(d, 0) THEN Rename(d, 0, 1) ELSE d

\* do_rollover(): the directory after it; gen numbers the file it creates
do_rollover(d, gen) ==
    OpenW(MoveCurrent(ShiftBackups(RemoveOldest(d), FirstShifted)), 0, gen)

\* self.file.write(data) of data_len bytes
Appended(d, data_len) == [d EXCEPT ![0].size = @ + data_len]

\* the log directories the program may find: each backup of an earlier run
\* there or not, older under a higher name, and the log file there with some
\* size or not there
FirstGen == backup_count + 1
OldSizes == { 0, 2 * (max_bytes \div 5), max_bytes }
OldBackups ==
    { [ name \in FileNames |->
          IF name \in kept THEN File(FirstGen - name, max_bytes) ELSE Absent ]
      : kept \in SUBSET (1..backup_count) }
OldDisks ==
    OldBackups \cup { [ d EXCEPT ![0] = File(FirstGen, size) ]
                      : d \in OldBackups, size \in OldSizes }

\* len(data.encode('utf-8')) of the data written
DataLens == { 0, 2 * (max_bytes \div 5), 3 * (max_bytes \div 5), max_bytes,
              max_bytes + 1 }

\* RotatingFile.__init__: open(filename, 'a') and file_size = getsize
InitRotating ==
    /\ ConstructedWith({ << JNull, JNull >> })
    /\ history = Untracked
    /\ tool_returned = NoReturn
    /\ resource_read = NoReturn
    /\ handled = NoReturn
    /\ ShutdownIdle
    /\ \E old \in OldDisks :
          /\ disk = OpenA(old, 0, FirstGen)
          /\ file_size = OpenA(old, 0, FirstGen)[0].size

\* whether write(data) rolls over
NeedsRollover(data_len) == file_size + data_len > max_bytes

\* RotatingFile.write(data) for data of data_len bytes
Write(data_len) ==
    /\ NeedsRollover(data_len) => disk[0].gen < FirstGen + MaxRollovers
    /\ disk' = Appended(IF NeedsRollover(data_len)
                        THEN do_rollover(disk, disk[0].gen + 1)
                        ELSE disk,
                        data_len)
    /\ file_size' = (IF NeedsRollover(data_len) THEN 0 ELSE file_size) + data_len
    /\ UNCHANGED notRotating

NextRotating == \E data_len \in DataLens : Write(data_len)

SpecRotating == InitRotating /\ [][NextRotating]_vars

----------------------------------------------------------------------------
(* C20 *)

\* the names of the backups that exist
Backups(d) == { name \in FileNames \ { 0 } : d[name].exists }

\* a step in which the log file was replaced by a new one: a rollover
RolledOver == disk'[0].gen # disk[0].gen

\* C20: at every moment the backups are among filename.1 .. filename.3, a
\* backup under a lower name was created later, the log file is the newest
\* file and file_size is its size; and a step that rolls over takes place
\* only when the data does not fit, leaves every backup .i under .i+1 except
\* the one under .3, which is gone, leaves the old log file unchanged under
\* .1, and leaves a new log file holding nothing but the data of this write.
C20_Rollover ==
    /\ [](/\ Backups(disk) \subseteq 1..backup_count
          /\ Cardinality(Backups(disk)) <= backup_count
          /\ disk[0].exists
          /\ disk[0].size = file_size
          /\ \A i \in Backups(disk) : disk[i].gen < disk[0].gen
          /\ \A i, j \in Backups(disk) : i < j => disk[i].gen > disk[j].gen)
    /\ [][/\ RolledOver =>
               /\ \E data_len \in DataLens :
                     /\ file_size + data_len > max_bytes
                     /\ disk'[0] = [exists |-> TRUE, gen |-> disk[0].gen + 1,
                                    size |-> data_len]
               /\ disk'[1] = disk[0]
               /\ \A i \in 1..(backup_count - 1) : disk'[i + 1] = disk[i]
               /\ { disk[i].gen : i \in Backups(disk) }
                     \ { disk'[i].gen : i \in Backups(disk') }
                        \subseteq { disk[i].gen : i \in Backups(disk) \cap { backup_count } }
          /\ ~RolledOver =>
               /\ \A i \in 1..(backup_count + 1) : disk'[i] = disk[i]
               /\ disk'[0].size >= disk[0].size
               /\ disk'[0].size <= max_bytes
         ]_vars

\* the log file has been replaced four times: three backups exist, all of
\* them made by this run, and the log file holds data
C20_Witness ==
    /\ Backups(disk) = 1..backup_count
    /\ disk[0].gen = FirstGen + 4
    /\ disk[backup_count].gen = FirstGen + 1
    /\ disk[1].size = max_bytes
    /\ file_size = 3 * (max_bytes \div 5)

----------------------------------------------------------------------------
(* sse_server.py: main, its monitor thread and its force-exit timer *)

\* the process has not ended
Alive == process = "running"

\* the places where restore_terminal_settings is called: the handler of
\* KeyboardInterrupt, the finally of main, atexit, the second exit request,
\* the finally of the monitor thread, force_exit
RestoreSites ==
    { "except_restore", "finally_restore", "atexit_restore", "second_restore",
      "monitor_restore", "timer_restore" }

\* where the caller goes on when restore_terminal_settings returns
After(site) ==
    CASE site = "except_restore" -> "finally"
      [] site = "finally_restore" -> "atexit_restore"
      [] site = "atexit_restore" -> "exit"
      [] site = "second_restore" -> "second_term"
      [] site = "monitor_restore" -> "done"
      [] site = "timer_restore" -> "timer_term"

\* whether the call passes fd and old_settings
PassesSettings(site) == site \in { "second_restore", "monitor_restore", "timer_restore" }

\* a signal the thread sends to the process, with the number of tcsetattr
\* calls made by then
Sent(sig, by) == [sig |-> sig, by |-> by, restores |-> tcsetattr_calls]

ForceExitAlways(r) == TRUE

\* force_exit: "if running:"
ForceExitProceeds(r) == r

\* after monitor.start(): main enters uvicorn.run, the monitor thread starts
InitShutdown ==
    /\ ConstructedWith({ << JNull, JNull >> })
    /\ history = Untracked
    /\ tool_returned = NoReturn
    /\ resource_read = NoReturn
    /\ handled = NoReturn
    /\ RotatingIdle
    /\ pc = [ t \in Threads |->
                IF t = "main" THEN "uvicorn" ELSE IF t = "monitor" THEN "start" ELSE "unset" ]
    /\ restoring = [ t \in Threads |-> "idle" ]
    /\ running = TRUE
    /\ exit_requested = FALSE
    /\ terminal_restored = FALSE
    /\ global_terminal_settings = FALSE
    /\ terminal = "cooked"
    /\ tcsetattr_calls = 0
    /\ signals = << >>
    /\ process = "running"
    /\ seen_running = "unset"
    /\ quit_keys = 0

\* restore_terminal_settings, lines 196-205: the test of terminal_restored
\* and the choice of the settings
RestoreCheck(t) ==
    /\ Alive
    /\ pc[t] \in RestoreSites
    /\ restoring[t] = "idle"
    /\ IF terminal_restored \/ (~PassesSettings(pc[t]) /\ ~global_terminal_settings)
       THEN /\ pc' = [pc EXCEPT ![t] = After(pc[t])]
            /\ UNCHANGED restoring
       ELSE /\ restoring' = [restoring EXCEPT ![t] = "tcsetattr"]
            /\ UNCHANGED pc
    /\ UNCHANGED << running, exit_requested, terminal_restored, global_terminal_settings,
                    terminal, tcsetattr_calls, signals, process, seen_running, quit_keys >>
    /\ UNCHANGED notShutdown

\* restore_terminal_settings, lines 208-210: termios.tcsetattr
RestoreApply(t) ==
    /\ Alive
    /\ restoring[t] = "tcsetattr"
    /\ terminal' = "cooked"
    /\ tcsetattr_calls' = tcsetattr_calls + 1
    /\ restoring' = [restoring EXCEPT ![t] = "mark"]
    /\ UNCHANGED << pc, running, exit_requested, terminal_restored,
                    global_terminal_settings, signals, process, seen_running, quit_keys >>
    /\ UNCHANGED notShutdown

\* restore_terminal_settings, lines 212-215: terminal_restored = True
RestoreMark(t) ==
    /\ Alive
    /\ restoring[t] = "mark"
    /\ terminal_restored' = TRUE
    /\ restoring' = [restoring EXCEPT ![t] = "idle"]
    /\ pc' = [pc EXCEPT ![t] = After(pc[t])]
    /\ UNCHANGED << running, exit_requested, global_terminal_settings, terminal,
                    tcsetattr_calls, signals, process, seen_running, quit_keys >>
    /\ UNCHANGED notShutdown

\* a step of a thread that only moves it on
Step(t, from, to) ==
    /\ Alive
    /\ pc[t] = from
    /\ pc' = [pc EXCEPT ![t] = to]
    /\ UNCHANGED << restoring, running, exit_requested, terminal_restored,
                    global_terminal_settings, terminal, tcsetattr_calls, signals,
                    process, seen_running, quit_keys >>
    /\ UNCHANGED notShutdown

\* uvicorn.run returns (or ends in SystemExit): on to the finally of main
UvicornReturns == Step("main", "uvicorn", "finally")

\* uvicorn.run ends in KeyboardInterrupt: on to the handler, line 464
UvicornInterrupted == Step("main", "uvicorn", "except_restore")

\* the finally of main, line 471: running = False
MainFinally ==
    /\ Alive
    /\ pc["main"] = "finally"
    /\ running' = FALSE
    /\ pc' = [pc EXCEPT !["main"] = "finally_restore"]
    /\ UNCHANGED << restoring, exit_requested, terminal_restored,
                    global_terminal_settings, terminal, tcsetattr_calls, signals,
                    process, seen_running, quit_keys >>
    /\ UNCHANGED notShutdown

\* main has returned and atexit has run: the process ends, and its daemon
\* threads with it
ProcessExits ==
    /\ Alive
    /\ pc["main"] = "exit"
    /\ process' = "exited"
    /\ UNCHANGED << pc, restoring, running, exit_requested, terminal_restored,
                    global_terminal_settings, terminal, tcsetattr_calls, signals,
                    seen_running, quit_keys >>
    /\ UNCHANGED notShutdown

\* monitor_thread, lines 377-383: tcgetattr and the two globals
MonitorSaves ==
    /\ Alive
    /\ pc["monitor"] = "start"
    /\ global_terminal_settings' = TRUE
    /\ pc' = [pc EXCEPT !["monitor"] = "saved"]
    /\ UNCHANGED << restoring, running, exit_requested, terminal_restored, terminal,
                    tcsetattr_calls, signals, process, seen_running, quit_keys >>
    /\ UNCHANGED notShutdown

\* monitor_thread, lines 388-391: tty.setraw
MonitorSetsRaw ==
    /\ Alive
    /\ pc["monitor"] = "saved"
    /\ terminal' = "raw"
    /\ pc' = [pc EXCEPT !["monitor"] = "loop"]
    /\ UNCHANGED << restoring, running, exit_requested, terminal_restored,
                    global_terminal_settings, tcsetattr_calls, signals, process,
                    seen_running, quit_keys >>
    /\ UNCHANGED notShutdown

\* monitor_thread, line 393: "while running" is true, on to select
MonitorLoops ==
    /\ running
    /\ Step("monitor", "loop", "select")

\* monitor_thread, line 393: "while running" is false, on to the finally
MonitorLeaves ==
    /\ ~running
    /\ Step("monitor", "loop", "monitor_restore")

\* monitor_thread, lines 395-399: select times out, or the key is not one
\* that asks to quit
MonitorIdles == Step("monitor", "select", "loop")

\* monitor_thread, lines 397-436: the first 'q' or Ctrl+C
FirstKey ==
    /\ Alive
    /\ pc["monitor"] = "select"
    /\ ~exit_requested
    /\ exit_requested' = TRUE
    /\ quit_keys' = quit_keys + 1
    /\ signals' = Append(signals, Sent("SIGINT", "monitor"))
    /\ pc' = [pc EXCEPT !["monitor"] = "loop", !["timer"] = "waiting"]
    /\ UNCHANGED << restoring, running, terminal_restored, global_terminal_settings,
                    terminal, tcsetattr_calls, process, seen_running >>
    /\ UNCHANGED notShutdown

\* monitor_thread, lines 397-401: a 'q' or Ctrl+C when exit_requested is set
SecondKey ==
    /\ Alive
    /\ pc["monitor"] = "select"
    /\ exit_requested
    /\ quit_keys' = quit_keys + 1
    /\ pc' = [pc EXCEPT !["monitor"] = "second_restore"]
    /\ UNCHANGED << restoring, running, exit_requested, terminal_restored,
                    global_terminal_settings, terminal, tcsetattr_calls, signals,
                    process, seen_running >>
    /\ UNCHANGED notShutdown

\* force_exit, line 418, when the timer expires
TimerFires ==
    /\ Alive
    /\ pc["timer"] = "waiting"
    /\ seen_running' = (IF running THEN "true" ELSE "false")
    /\ pc' = [pc EXCEPT !["timer"] =
                IF ForceExitProceeds(running) THEN "timer_restore" ELSE "done"]
    /\ UNCHANGED << restoring, running, exit_requested, terminal_restored,
                    global_terminal_settings, terminal, tcsetattr_calls, signals,
                    process, quit_keys >>
    /\ UNCHANGED notShutdown

\* os.kill(os.getpid(), signal.SIGTERM), lines 406 and 424
SendsSigterm(t, from, to) ==
    /\ Alive
    /\ pc[t] = from
    /\ signals' = Append(signals, Sent("SIGTERM", t))
    /\ pc' = [pc EXCEPT ![t] = to]
    /\ UNCHANGED << restoring, running, exit_requested, terminal_restored,
                    global_terminal_settings, terminal, tcsetattr_calls, process,
                    seen_running, quit_keys >>
    /\ UNCHANGED notShutdown

\* os.kill(os.getpid(), signal.SIGKILL), lines 410 and 428: the process ends
SendsSigkill(t, from) ==
    /\ Alive
    /\ pc[t] = from
    /\ signals' = Append(signals, Sent("SIGKILL", t))
    /\ process' = "SIGKILL"
    /\ UNCHANGED << pc, restoring, running, exit_requested, terminal_restored,
                    global_terminal_settings, terminal, tcsetattr_calls,
                    seen_running, quit_keys >>
    /\ UNCHANGED notShutdown

MonitorSigterm == SendsSigterm("monitor", "second_term", "second_kill")
MonitorSigkill == SendsSigkill("monitor", "second_kill")
TimerSigterm == SendsSigterm("timer", "timer_term", "timer_kill")
TimerSigkill == SendsSigkill("timer", "timer_kill")

\* a SIGTERM the process sent itself ends it, when no handler of uvicorn
\* takes it
SigtermEnds ==
    /\ Alive
    /\ \E i \in 1..Len(signals) : signals[i].sig = "SIGTERM"
    /\ process' = "SIGTERM"
    /\ UNCHANGED << pc, restoring, running, exit_requested, terminal_restored,
                    global_terminal_settings, terminal, tcsetattr_calls, signals,
                    seen_running, quit_keys >>
    /\ UNCHANGED notShutdown

NextShutdown ==
    \/ \E t \in Threads : RestoreCheck(t)
    \/ \E t \in Threads : RestoreApply(t)
    \/ \E t \in Threads : RestoreMark(t)
    \/ UvicornReturns
    \/ UvicornInterrupted
    \/ MainFinally
    \/ ProcessExits
    \/ MonitorSaves
    \/ MonitorSetsRaw
    \/ MonitorLoops
    \/ MonitorLeaves
    \/ MonitorIdles
    \/ FirstKey
    \/ SecondKey
    \/ TimerFires
    \/ MonitorSigterm
    \/ MonitorSigkill
    \/ TimerSigterm
    \/ TimerSigkill
    \/ SigtermEnds

SpecShutdown == InitShutdown /\ [][NextShutdown]_vars

----------------------------------------------------------------------------
(* C15 *)

\* the process has ended
Ended == process # "running"

\* the monitor thread has put the terminal into raw mode
RawEntered == pc["monitor"] \notin { "unset", "start", "saved" }

\* C15: when the process has ended after the monitor thread put the terminal
\* into raw mode, the terminal has its original settings; tcsetattr has
\* restored them before every SIGTERM and SIGKILL the process sent itself;
\* and the terminal is not in raw mode once terminal_restored is set.
C15_TerminalRestoredAtExit ==
    /\ (Ended /\ RawEntered) => terminal = "cooked"
    /\ \A i \in 1..Len(signals) :
          signals[i].sig \in { "SIGTERM", "SIGKILL" } => signals[i].restores >= 1
    /\ terminal_restored => terminal = "cooked"

----------------------------------------------------------------------------
(* C16 *)

\* C16: restore_terminal_settings calls tcsetattr at most once in a run of
\* the process.
C16_RestoresAtMostOnce == tcsetattr_calls <= 1

----------------------------------------------------------------------------
(* C17 *)

\* the signals sent so far, by kind
Sigs(kind) == { i \in 1..Len(signals) : signals[i].sig = kind }

\* C17: the first quit key sets exit_requested, starts the timer and sends
\* SIGINT, the only signal of that branch; every SIGTERM and SIGKILL comes
\* from the second quit key, read while exit_requested was set, or from the
\* timer that found running true; every SIGKILL follows a SIGTERM of its
\* sender; and a timer that found running false sends nothing.
C17_TwoStageEscalation ==
    /\ quit_keys >= 1
          => /\ exit_requested
             /\ pc["timer"] # "unset"
             /\ Len(signals) >= 1
             /\ signals[1] = [sig |-> "SIGINT", by |-> "monitor", restores |-> signals[1].restores]
    /\ quit_keys = 0 => (signals = << >> /\ ~exit_requested /\ pc["timer"] = "unset")
    /\ Cardinality(Sigs("SIGINT")) <= 1
    /\ \A i \in Sigs("SIGTERM") \cup Sigs("SIGKILL") :
          \/ signals[i].by = "monitor" /\ quit_keys = 2 /\ exit_requested
          \/ signals[i].by = "timer" /\ seen_running = "true"
    /\ \A i \in Sigs("SIGKILL") :
          \E j \in Sigs("SIGTERM") : j < i /\ signals[j].by = signals[i].by
    /\ seen_running = "false" => \A i \in 1..Len(signals) : signals[i].by # "timer"

\* the timer found running false and sent nothing, after one quit key
C17_Witness ==
    /\ quit_keys = 1
    /\ seen_running = "false"
    /\ pc["timer"] = "done"
    /\ Len(signals) = 1
    /\ process = "exited"

============================================================================
